---- MODULE Spec2Model ----
(***************************************************************************)
(* ppdfgrep: a wrapper that runs one pdfgrep per PDF file, at most          *)
(* runtime.NumCPU() at a time, and prints the outputs in discovery order.   *)
(*                                                                          *)
(* Spec      the dispatch loop, the search goroutines and the collector     *)
(*           loop of main (src/ppdfgrep.go 209-239).                        *)
(* SpecWalk  the discovery: getFileList on each FILE argument in turn       *)
(*           (src/ppdfgrep.go 110-157, 205-207).                            *)
(*                                                                          *)
(* The goroutines and main share availableThreads and files[] without any   *)
(* synchronisation.  availableThreads++ / -- are a load and a store, and    *)
(* the collector's struct copy f = files[i] is a sequence of loads; each    *)
(* load and each store is a step of its own here.                           *)
(***************************************************************************)
EXTENDS Integers, Sequences, FiniteSets, TLC

\* Bounds of the model.
MaxFiles == 4
MaxCPU == 2
MaxRoots == 2
\* Candidates in the runs that are checked for termination and for a hung tool.
MaxLiveFiles == 3

----------------------------------------------------------------------------
\* State of main and of the goroutines.

VARIABLES
    files,             \* []File: filename, buf, buflen, processed, retval
    tool,              \* what pdfgrep does on candidate k once it has run
    availableThreads,  \* the global admission counter
    ncpu,              \* runtime.NumCPU(), the initial availableThreads
    wg,                \* the WaitGroup counter
    pc,                \* where main is
    i,                 \* main's loop index (1-based)
    reg,               \* main's load of availableThreads in availableThreads--
    f,                 \* the collector's copy of files[i]
    ret,               \* main's ret
    stdout,            \* what has been written to os.Stdout
    exitStatus,        \* the status handed to os.Exit, -1 while running
    tpc,               \* where each goroutine is
    treg,              \* each goroutine's load of availableThreads in ++
    flagRecurse,       \* -r / --recursive
    filenames,         \* the FILE arguments, nonflags[1:]
    fsys,              \* the file system the walk meets
    visited,           \* the paths the walk function was called with, in order
    classified         \* the paths isPDF was called with

vars == <<files, tool, availableThreads, ncpu, wg, pc, i, reg, f, ret,
          stdout, exitStatus, tpc, treg, flagRecurse, filenames, fsys,
          visited, classified>>

walkVars == <<flagRecurse, filenames, fsys, visited, classified>>

Fields == {"buf", "buflen", "processed", "retval"}

\* type File as getFileList appends it: f.filename = path, f.buflen = 0,
\* f.processed = false, buf and retval at their zero values.
NewFile(path) ==
    [filename |-> path, buf |-> <<>>, buflen |-> 0, processed |-> FALSE,
     retval |-> 0]

\* var f File
File == NewFile(0)

\* No outcome yet: the goroutine has not run pdfgrep.
NotRun == [err |-> "notrun", rc |-> 0, out |-> <<>>]

\* The pdfgrep of this candidate hangs: cmd.Output() will not return.
Hung == [err |-> "hang", rc |-> 0, out |-> <<>>]

\* What cmd.Output() can return for candidate k.  err is "none" (exit status
\* 0), "exit" (an *exec.ExitError with exit code rc) or "exec" (pdfgrep could
\* not be started: an error that is no ExitError).  out is the captured
\* stdout, here the candidate's own token.  The outcomes: matches; no match
\* (exit status 1); an error (exit status 2 or more, here 1 + k, with part of
\* the output already on stdout); pdfgrep not started.
ToolOutcomes(k) ==
    { [err |-> "none", rc |-> 0, out |-> <<k>>],
      [err |-> "exit", rc |-> 1, out |-> <<>>],
      [err |-> "exit", rc |-> 1 + k, out |-> <<k>>],
      [err |-> "exec", rc |-> 0, out |-> <<>>] }

Cand == 1..Len(files)

----------------------------------------------------------------------------
\* The file system of the discovery.  A name is the sequence of its
\* characters, a path the sequence of its names.

Dot == <<".">>
DotDot == <<".", ".">>
NameD == <<"d">>
NameF == <<"f">>
NameG == <<"g">>
NameDotH == <<".", "h">>
NameDotX == <<".", "x">>
NameA == <<"a">>
NameB == <<"b">>
NameC == <<"c">>
NameS == <<"s">>

\*   .              the working directory, holding d and f
\*   ..             its parent, holding g
\*   d/.h/b  d/.x  d/a  d/s/c
Dirs == { <<Dot>>, <<DotDot>>, <<NameD>>, <<NameD, NameDotH>>, <<NameD, NameS>> }

RegularFiles ==
    { <<NameF>>, <<DotDot, NameG>>, <<NameD, NameDotX>>, <<NameD, NameA>>,
      <<NameD, NameDotH, NameB>>, <<NameD, NameS, NameC>> }

Nodes == Dirs \cup RegularFiles

\* The FILE arguments the model draws from.
Roots == { <<Dot>>, <<DotDot>>, <<NameD>>, <<NameF>> }

\* The names in a directory, in lexical order as filepath.Walk reads them.
DirEntries(path) ==
    CASE path = <<Dot>> -> <<NameD, NameF>>
      [] path = <<DotDot>> -> <<NameG>>
      [] path = <<NameD>> -> <<NameDotH, NameDotX, NameA, NameS>>
      [] path = <<NameD, NameDotH>> -> <<NameB>>
      [] path = <<NameD, NameS>> -> <<NameC>>
      [] OTHER -> <<>>

\* s.Mode().IsDir()
IsDir(path) == path \in Dirs

\* filepath.Join(path, name), which cleans the result: ./d is d.
Join(path, name) == IF path = <<Dot>> THEN <<name>> ELSE Append(path, name)

\* filepath.Base(path)
Base(path) == path[Len(path)]

\* What the walk can meet: the regular files whose header is a PDF's (isPDF),
\* the nodes filepath.Walk reports with an error (its own lstat or its reading
\* of the directory failed) and the nodes the walk function's os.Lstat fails on.
NoFsys == [pdf |-> {}, werr |-> {}, lerr |-> {}]

OneOf(S) == {{}} \cup { {n} : n \in S }

\* At most one failing node.
Fsys ==
    { [pdf |-> P, werr |-> E[1], lerr |-> E[2]] :
        P \in SUBSET RegularFiles,
        E \in { e \in OneOf(Nodes) \X OneOf(Nodes) : e[1] = {} \/ e[2] = {} } }

isPDF(path) == path \in fsys.pdf

\* The check with its first half lost: only ".." is skipped.
HiddenOnlyDotDot(file) == file = DotDot

\* file[0] == '.' || file == ".."
Hidden(file) == file[1] = "." \/ file = DotDot

\* The walk function of getFileList, called with path and err; st holds
\* files, visited and classified.  Returns them with the function's result:
\* "nil", "SkipDir" or "err".
walkFn(root, path, err, st) ==
    LET seen == [st EXCEPT !.visited = Append(@, path)] IN
    IF err THEN [st |-> seen, res |-> "nil"]
    ELSE IF Hidden(Base(path)) THEN [st |-> seen, res |-> "nil"]
    ELSE IF path \in fsys.lerr THEN [st |-> seen, res |-> "err"]
    ELSE IF IsDir(path)
         THEN IF ~flagRecurse THEN [st |-> seen, res |-> "SkipDir"]
              ELSE IF root = path THEN [st |-> seen, res |-> "nil"]
              ELSE [st |-> seen, res |-> "nil"]
    ELSE LET sniffed == [seen EXCEPT !.classified = @ \cup {path}] IN
         IF ~isPDF(path) THEN [st |-> sniffed, res |-> "nil"]
         ELSE [st |-> [sniffed EXCEPT !.files = Append(@, NewFile(path))],
               res |-> "nil"]

RECURSIVE walk(_, _, _)
RECURSIVE walkNames(_, _, _, _)

\* filepath.Walk's walk(path, info, walkFn): a directory is handed to the
\* function first and entered when the function returns nil.
walk(root, path, st) ==
    IF path \in fsys.werr THEN walkFn(root, path, TRUE, st)
    ELSE IF ~IsDir(path) THEN walkFn(root, path, FALSE, st)
    ELSE LET r == walkFn(root, path, FALSE, st) IN
         IF r.res # "nil" THEN r
         ELSE walkNames(root, path, 1, r.st)

\* Its loop over the names of a directory: SkipDir from a directory skips that
\* directory; any other non-nil result ends the loop and is returned.
walkNames(root, path, n, st) ==
    IF n > Len(DirEntries(path)) THEN [st |-> st, res |-> "nil"]
    ELSE LET filename == Join(path, DirEntries(path)[n])
             r == walk(root, filename, st)
         IN  IF r.res = "nil" \/ (r.res = "SkipDir" /\ IsDir(filename))
             THEN walkNames(root, path, n + 1, r.st)
             ELSE r

\* getFileList(root, &files): filepath.Walk(root, ...).  main drops the error.
getFileList(root, st) == walk(root, root, st).st


----------------------------------------------------------------------------
\* main up to the dispatch loop: availableThreads = runtime.NumCPU(), and
\* files as the discovery left it.

Init ==
    /\ ncpu \in 1..MaxCPU
    /\ availableThreads = ncpu
    /\ \E n \in 0..MaxFiles : files = [k \in 1..n |-> NewFile(k)]
    /\ tool = [k \in 1..Len(files) |-> NotRun]
    /\ wg = 0
    /\ pc = "dispatch"
    /\ i = 1
    /\ reg = 0
    /\ f = File
    /\ ret = 0
    /\ stdout = <<>>
    /\ exitStatus = -1
    /\ tpc = [k \in 1..Len(files) |-> "idle"]
    /\ treg = [k \in 1..Len(files) |-> 0]
    /\ flagRecurse = FALSE
    /\ filenames = <<>>
    /\ fsys = NoFsys
    /\ visited = <<>>
    /\ classified = {}

Running == exitStatus = -1

----------------------------------------------------------------------------
\* The dispatch loop.

\* for availableThreads <= 0 { Sleep }; wg.Add(1)
mainAdmit ==
    /\ Running /\ pc = "dispatch" /\ i <= Len(files)
    /\ availableThreads > 0
    /\ wg' = wg + 1
    /\ pc' = "dec"
    /\ UNCHANGED <<files, tool, availableThreads, ncpu, i, reg, f, ret,
                   stdout, exitStatus, tpc, treg,
                   walkVars>>

\* decrementAvailableThreads(): the load of availableThreads--
decrementLoad ==
    /\ Running /\ pc = "dec"
    /\ reg' = availableThreads
    /\ pc' = "go"
    /\ UNCHANGED <<files, tool, availableThreads, ncpu, wg, i, f, ret,
                   stdout, exitStatus, tpc, treg,
                   walkVars>>

\* decrementAvailableThreads(): the store of availableThreads--, then
\* go doPdfgrep(flags, expr, files, i) and the next iteration.
decrementStoreGo ==
    /\ Running /\ pc = "go"
    /\ availableThreads' = reg - 1
    /\ reg' = 0
    /\ tpc' = [tpc EXCEPT ![i] = "run"]
    /\ i' = i + 1
    /\ pc' = "dispatch"
    /\ UNCHANGED <<files, tool, ncpu, wg, f, ret, stdout, exitStatus, treg,
                   walkVars>>

\* The dispatch loop left after the first launch: the collector loop starts
\* while candidates are still to be launched.
mainDispatchedEarly ==
    /\ Running /\ pc = "dispatch" /\ i > (IF Len(files) = 0 THEN 0 ELSE 1)
    /\ i' = 1
    /\ pc' = IF Len(files) = 0 THEN "wait" ELSE "copy"
    /\ UNCHANGED <<files, tool, availableThreads, ncpu, wg, reg, f, ret,
                   stdout, exitStatus, tpc, treg,
                   walkVars>>

\* The range loop is over: on to the collector loop, i := 0.
mainDispatched ==
    /\ Running /\ pc = "dispatch" /\ i > Len(files)
    /\ i' = 1
    /\ pc' = IF Len(files) = 0 THEN "wait" ELSE "copy"
    /\ UNCHANGED <<files, tool, availableThreads, ncpu, wg, reg, f, ret,
                   stdout, exitStatus, tpc, treg,
                   walkVars>>

----------------------------------------------------------------------------
\* go doPdfgrep(flags, expr, files, k)

\* files[k] after the body of doPdfgrep when cmd.Output() returned o:
\*   files[k].buf, err = cmd.Output()
\*   err is an *exec.ExitError: files[k].retval = rc; return err
\*   otherwise (err is nil, or is no ExitError):
\*     files[k].buflen = len(files[k].buf); files[k].retval = 0; return nil
doPdfgrepStores(file, o) ==
    IF o.err = "exit"
    THEN [file EXCEPT !.buf = o.out, !.retval = o.rc]
    ELSE [file EXCEPT !.buf = o.out, !.buflen = Len(o.out), !.retval = 0]

\* The body of doPdfgrep, from exec.Command to the return.  Its stores go to
\* files[k] only, and the one reader of files[k] besides this goroutine is the
\* collector's copy, whose loads are spread over two moments (copyBegin,
\* copyEnd): every mix of old and new fields that a store-by-store interleaving
\* can show the collector is shown by this step as well.
doPdfgrepBody(k) ==
    /\ Running /\ tpc[k] = "run"
    /\ tool[k] # Hung
    /\ \E o \in ToolOutcomes(k) :
        /\ tool' = [tool EXCEPT ![k] = o]
        /\ files' = [files EXCEPT ![k] = doPdfgrepStores(files[k], o)]
    /\ tpc' = [tpc EXCEPT ![k] = "defer"]
    /\ UNCHANGED <<availableThreads, ncpu, wg, pc, i, reg, f, ret, stdout,
                   exitStatus, treg,
                   walkVars>>

\* The deferred call as it would run had the goroutine been a closure over
\* the loop variable of the dispatch loop: it marks the slot main is at.
doPdfgrepExitLoopVar(k) ==
    /\ Running /\ tpc[k] = "defer"
    /\ files' = [files EXCEPT ![IF i <= Len(files) THEN i ELSE k].processed = TRUE]
    /\ tpc' = [tpc EXCEPT ![k] = "inc"]
    /\ UNCHANGED <<tool, availableThreads, ncpu, wg, pc, i, reg, f, ret,
                   stdout, exitStatus, treg,
                   walkVars>>

\* defer doPdfgrepExit(files, k): files[k].processed = true
doPdfgrepExit(k) ==
    /\ Running /\ tpc[k] = "defer"
    /\ files' = [files EXCEPT ![k].processed = TRUE]
    /\ tpc' = [tpc EXCEPT ![k] = "inc"]
    /\ UNCHANGED <<tool, availableThreads, ncpu, wg, pc, i, reg, f, ret,
                   stdout, exitStatus, treg,
                   walkVars>>

\* incrementAvailableThreads(): the load of availableThreads++
incrementLoad(k) ==
    /\ Running /\ tpc[k] = "inc"
    /\ treg' = [treg EXCEPT ![k] = availableThreads]
    /\ tpc' = [tpc EXCEPT ![k] = "incstore"]
    /\ UNCHANGED <<files, tool, availableThreads, ncpu, wg, pc, i, reg, f,
                   ret, stdout, exitStatus,
                   walkVars>>

\* The deferred call without incrementAvailableThreads(): the slot of the
\* budget is not given back.
incrementStoreDoneNoRelease(k) ==
    /\ Running /\ tpc[k] = "incstore"
    /\ treg' = [treg EXCEPT ![k] = 0]
    /\ wg' = wg - 1
    /\ tpc' = [tpc EXCEPT ![k] = "done"]
    /\ UNCHANGED <<files, tool, availableThreads, ncpu, pc, i, reg, f, ret,
                   stdout, exitStatus,
                   walkVars>>

\* incrementAvailableThreads(): the store of availableThreads++; then
\* wg.Done(), and the goroutine returns.
incrementStoreDone(k) ==
    /\ Running /\ tpc[k] = "incstore"
    /\ availableThreads' = treg[k] + 1
    /\ treg' = [treg EXCEPT ![k] = 0]
    /\ wg' = wg - 1
    /\ tpc' = [tpc EXCEPT ![k] = "done"]
    /\ UNCHANGED <<files, tool, ncpu, pc, i, reg, f, ret, stdout, exitStatus,
                   walkVars>>

----------------------------------------------------------------------------
\* The collector loop.

\* A copy of the struct that takes the fields in S from early and the others
\* from late.
MixFields(early, late, S) ==
    [filename |-> late.filename,
     buf |-> IF "buf" \in S THEN early.buf ELSE late.buf,
     buflen |-> IF "buflen" \in S THEN early.buflen ELSE late.buflen,
     processed |-> IF "processed" \in S THEN early.processed ELSE late.processed,
     retval |-> IF "retval" \in S THEN early.retval ELSE late.retval]

\* f := files[i] (and f = files[i] after a Sleep) is a copy of a multi-word
\* struct that races with the goroutine's stores: its loads are spread between
\* the moment the copy starts ...
copyBegin ==
    /\ Running /\ pc = "copy"
    /\ f' = files[i]
    /\ pc' = "copying"
    /\ UNCHANGED <<files, tool, availableThreads, ncpu, wg, i, reg, ret, stdout,
                   exitStatus, tpc, treg,
                   walkVars>>

\* ... and the moment it ends: every field is as it was at one of the two.
\* for f.processed == false { Sleep; f = files[i] }: poll again.
copyEnd ==
    /\ Running /\ pc = "copying"
    /\ \E S \in SUBSET Fields :
        LET g == MixFields(f, files[i], S) IN
        IF g.processed
        THEN /\ f' = g
             /\ pc' = "use"
        ELSE /\ f' = File
             /\ pc' = "copy"
    /\ UNCHANGED <<files, tool, availableThreads, ncpu, wg, i, reg, ret, stdout,
                   exitStatus, tpc, treg,
                   walkVars>>

Range(s) == { s[x] : x \in DOMAIN s }

\* A collector that drains whatever has completed instead of waiting for
\* slot i: it writes the output of any processed candidate not written yet.
collectDrain ==
    /\ Running /\ pc = "use"
    /\ ret' = IF f.retval # 0 THEN 1 ELSE ret
    /\ \E k \in Cand :
        /\ files[k].processed
        /\ k \notin Range(stdout)
        /\ stdout' = IF files[k].buflen = 0 THEN stdout ELSE stdout \o files[k].buf
    /\ f' = File
    /\ i' = i + 1
    /\ pc' = IF i + 1 > Len(files) THEN "wait" ELSE "copy"
    /\ UNCHANGED <<files, tool, availableThreads, ncpu, wg, reg, exitStatus,
                   tpc, treg, walkVars>>

\* if f.retval != 0 { ret = 1 }; if f.buflen == 0 { continue }; w.Write(f.buf)
collect ==
    /\ Running /\ pc = "use"
    /\ ret' = IF f.retval # 0 THEN 1 ELSE ret
    /\ stdout' = IF f.buflen = 0 THEN stdout ELSE stdout \o f.buf
    /\ f' = File
    /\ i' = i + 1
    /\ pc' = IF i + 1 > Len(files) THEN "wait" ELSE "copy"
    /\ UNCHANGED <<files, tool, availableThreads, ncpu, wg, reg, exitStatus,
                   tpc, treg,
                   walkVars>>

\* main without the barrier: it goes on to os.Exit at once.
wgWaitNoBarrier ==
    /\ Running /\ pc = "wait"
    /\ pc' = "exit"
    /\ UNCHANGED <<files, tool, availableThreads, ncpu, wg, i, reg, f, ret,
                   stdout, exitStatus, tpc, treg, walkVars>>

\* wg.Wait()
wgWait ==
    /\ Running /\ pc = "wait"
    /\ wg = 0
    /\ pc' = "exit"
    /\ UNCHANGED <<files, tool, availableThreads, ncpu, wg, i, reg, f, ret,
                   stdout, exitStatus, tpc, treg,
                   walkVars>>

\* os.Exit(ret)
mainExit ==
    /\ Running /\ pc = "exit"
    /\ exitStatus' = ret
    /\ pc' = "exited"
    /\ UNCHANGED <<files, tool, availableThreads, ncpu, wg, i, reg, f, ret,
                   stdout, tpc, treg,
                   walkVars>>

----------------------------------------------------------------------------
\* The discovery: for _, f := range filenames { getFileList(f, &files) }

InitWalk ==
    /\ flagRecurse \in BOOLEAN
    /\ \E n \in 1..MaxRoots : filenames \in [1..n -> Roots]
    /\ fsys \in Fsys
    /\ visited = <<>>
    /\ classified = {}
    /\ files = <<>>
    /\ tool = <<>>
    /\ ncpu = 1
    /\ availableThreads = 1
    /\ wg = 0
    /\ pc = "discover"
    /\ i = 1
    /\ reg = 0
    /\ f = File
    /\ ret = 0
    /\ stdout = <<>>
    /\ exitStatus = -1
    /\ tpc = <<>>
    /\ treg = <<>>

discover ==
    /\ pc = "discover" /\ i <= Len(filenames)
    /\ LET st == getFileList(filenames[i],
                  [files |-> files, visited |-> visited, classified |-> classified])
       IN  /\ files' = st.files
           /\ visited' = st.visited
           /\ classified' = st.classified
    /\ i' = i + 1
    /\ UNCHANGED <<tool, availableThreads, ncpu, wg, pc, reg, f, ret, stdout,
                   exitStatus, tpc, treg, flagRecurse, filenames, fsys>>

NextWalk == discover

SpecWalk == InitWalk /\ [][NextWalk]_vars

Discovered == pc = "discover" /\ i > Len(filenames)

doPdfgrep(k) ==
    \/ doPdfgrepBody(k)
    \/ doPdfgrepExit(k)
    \/ incrementLoad(k)
    \/ incrementStoreDone(k)

main ==
    \/ mainAdmit
    \/ decrementLoad
    \/ decrementStoreGo
    \/ mainDispatched
    \/ copyBegin
    \/ copyEnd
    \/ collect
    \/ wgWait
    \/ mainExit

Next ==
    \/ main
    \/ \E k \in Cand : doPdfgrep(k)

Spec == Init /\ [][Next]_vars

\* Fair scheduling: main and every goroutine launched keep being scheduled,
\* and cmd.Output() returns (doPdfgrepBody is a step of the goroutine).
InitFair == Init /\ Len(files) <= MaxLiveFiles

SpecFair ==
    /\ InitFair /\ [][Next]_vars
    /\ WF_vars(main)
    /\ \A k \in 1..MaxLiveFiles : WF_vars(k \in Cand /\ doPdfgrep(k))

\* At most one candidate's pdfgrep hangs (h = 0: none): its cmd.Output()
\* never returns.
InitHang ==
    /\ ncpu \in 1..MaxCPU
    /\ availableThreads = ncpu
    /\ \E n \in 1..MaxLiveFiles : files = [k \in 1..n |-> NewFile(k)]
    /\ \E h \in 0..Len(files) :
          tool = [k \in 1..Len(files) |-> IF k = h THEN Hung ELSE NotRun]
    /\ wg = 0
    /\ pc = "dispatch"
    /\ i = 1
    /\ reg = 0
    /\ f = File
    /\ ret = 0
    /\ stdout = <<>>
    /\ exitStatus = -1
    /\ tpc = [k \in 1..Len(files) |-> "idle"]
    /\ treg = [k \in 1..Len(files) |-> 0]
    /\ flagRecurse = FALSE
    /\ filenames = <<>>
    /\ fsys = NoFsys
    /\ visited = <<>>
    /\ classified = {}

SpecHang == InitHang /\ [][Next]_vars

----------------------------------------------------------------------------
\* Vocabulary of the claims.

Exited == exitStatus # -1

Match(k) == tool[k].err = "none" /\ tool[k].out # <<>>
NoMatch(k) == tool[k].err = "exit" /\ tool[k].rc = 1
Error(k) == tool[k].err = "exit" /\ tool[k].rc >= 2
ExecFailed(k) == tool[k].err = "exec"

\* A name that is ".", ".." or starts with ".".
DotName(name) == name[1] = "."

\* Launched and not yet finished.
InFlight(k) == tpc[k] \notin {"idle", "done"}

\* The output of candidate k is on stdout (the output of k is the token k).
Written(k) == k \in Range(stdout)

----------------------------------------------------------------------------
\* C1: the collector writes the non-empty outputs in discovery order: the
\* tokens on stdout are strictly increasing candidate indices whatever the
\* order in which the goroutines finish, and while the collector is at slot i
\* nothing of slot i or of a later slot has been written.
C1_DiscoveryOrder ==
    /\ \A a, b \in 1..Len(stdout) : a < b => stdout[a] < stdout[b]
    /\ pc \in {"copy", "copying", "use"} => \A a \in 1..Len(stdout) : stdout[a] < i

\* Candidate 2 has finished (its goroutine has returned) while candidate 1's
\* goroutine has not, and the collector has written 1's output before 2's.
C1_Witness ==
    /\ Len(files) >= 2
    /\ tpc[2] = "done"
    /\ tpc[1] = "incstore"
    /\ stdout = <<1, 2>>

\* C2: at every instant the number of goroutines launched and not yet
\* finished is at most N = runtime.NumCPU().
C2_InFlightWithinBudget ==
    Cardinality({k \in Cand : InFlight(k)}) <= ncpu

\* C3: a candidate whose pdfgrep exits with status 1 contributes no output
\* and does not fail the run: when every pdfgrep exits with 0 or 1, the exit
\* status is 0.
C3_NoMatchKeepsExitZero ==
    (Exited /\ \A k \in Cand : Match(k) \/ NoMatch(k))
        => /\ exitStatus = 0
           /\ \A k \in Cand : NoMatch(k) => ~Written(k)

\* C4: a candidate whose pdfgrep exits with status >= 2 contributes no output
\* and fails the run: the exit status is 1.
C4_ErrorFailsExit ==
    Exited => \A k \in Cand : Error(k) => ~Written(k) /\ exitStatus = 1

\* C5: an Error outcome of one candidate never aborts processing: every other
\* candidate is launched, finishes, and has its non-empty output written.
C5_ErrorDoesNotAbort ==
    Exited => \A e \in Cand : Error(e) =>
        \A k \in Cand \ {e} :
            /\ tpc[k] = "done"
            /\ files[k].processed
            /\ Match(k) => Written(k)

\* C6: when pdfgrep cannot be executed for a candidate, the failure is
\* recorded for the candidate and the exit status is failure.
C6_ExecFailureSurfaced ==
    Exited => \A k \in Cand : ExecFailed(k) =>
        files[k].retval # 0 /\ exitStatus # 0

\* What a run prints and returns when every goroutine has finished before the
\* collector looks at its slot: the buf of every candidate with buflen # 0, in
\* order, and 1 when some retval is not 0.
RECURSIVE ExpectedStdout(_)
ExpectedStdout(k) ==
    IF k > Len(files) THEN <<>>
    ELSE LET file == doPdfgrepStores(NewFile(k), tool[k]) IN
         (IF file.buflen = 0 THEN <<>> ELSE file.buf) \o ExpectedStdout(k + 1)

ExpectedStatus ==
    IF \E k \in Cand : doPdfgrepStores(NewFile(k), tool[k]).retval # 0 THEN 1 ELSE 0

\* C7: the output and the exit status are a function of the candidate list and
\* the per-file pdfgrep outcomes only: every schedule gives what the schedule
\* in which each goroutine finishes before the collector reads its slot gives.
C7_OutputDeterministic ==
    Exited => stdout = ExpectedStdout(1) /\ exitStatus = ExpectedStatus

RECURSIVE Below(_)
Below(path) ==
    LET kids == { Join(path, DirEntries(path)[n]) : n \in 1..Len(DirEntries(path)) }
    IN  kids \cup UNION { Below(q) : q \in kids }

\* C9: with recursion disabled a directory argument is entered once: its
\* direct children that are regular files are classified and its
\* grandchildren are not visited; with recursion enabled every non-hidden node
\* of the subtree is visited.  (Stated for a file system without errors.)
C9_RootDirectoryEntered ==
    (Discovered /\ fsys.werr = {} /\ fsys.lerr = {}) =>
        \A n \in 1..Len(filenames) :
            LET root == filenames[n]
                kids == { Join(root, DirEntries(root)[m]) :
                            m \in 1..Len(DirEntries(root)) }
            IN  IsDir(root) =>
                IF flagRecurse
                THEN \A p \in Below(root) : ~DotName(p[Len(p)]) => p \in Range(visited)
                ELSE /\ \A p \in kids :
                          (~IsDir(p) /\ ~DotName(p[Len(p)])) => p \in classified
                     /\ \A p \in Below(root) \ kids :
                          p \in Range(filenames) \/ p \notin Range(visited)

\* C10 as stated: control leaves the dispatch loop only after every candidate
\* is Done, and the process never exits while a goroutine is in flight.
C10_DispatchReturnsAfterAllDone ==
    /\ pc \in {"copy", "copying", "use", "wait", "exit", "exited"}
           => \A k \in Cand : files[k].processed
    /\ Exited => \A k \in Cand : ~InFlight(k)

\* C10, amended: the barrier wg.Wait() stands after the collector loop, and
\* the process exits only after every goroutine launched has finished.
C10_ExitAfterAllTasks ==
    pc \in {"exit", "exited"} => wg = 0 /\ \A k \in Cand : tpc[k] = "done"

\* The process has exited after running several candidates.
C10_Witness ==
    Exited /\ Len(files) >= 2 /\ \A k \in Cand : tpc[k] = "done"

\* C11: in every reachable state the budget availableThreads lies in [0, N];
\* a launch (wg.Add, the decrement, the go statement) is under way only with
\* a budget of at least 1, and the dispatcher decides about the next launch
\* only after the store of the decrement.
C11_BudgetInRange ==
    /\ availableThreads \in 0..ncpu
    /\ pc \in {"dec", "go"} => availableThreads >= 1
    /\ pc = "go" => reg >= 1

\* C12: the budget accounts exactly for the goroutines in flight.  While no
\* availableThreads++ or availableThreads-- is between its load and its store,
\* availableThreads is N minus the number of goroutines launched whose
\* increment has not happened; so once every goroutine has finished it is N.
C12_NoLostUpdate ==
    /\ (pc # "go" /\ \A k \in Cand : tpc[k] # "incstore")
           => availableThreads =
                  ncpu - Cardinality({k \in Cand : tpc[k] \in {"run", "defer", "inc"}})
    /\ (\A k \in Cand : tpc[k] = "done") => availableThreads = ncpu

\* C13: a slot of files changes only by a step of the goroutine launched for
\* that index (the body of doPdfgrep, then the deferred processed = true);
\* a step of goroutine k leaves every other slot as it is, and a slot whose
\* processed is true never changes again.
C13_SlotWrittenByOwnerOnce ==
    [][\A k \in Cand :
          /\ files'[k] # files[k] =>
                /\ ~files[k].processed
                /\ tpc[k] \in {"run", "defer"}
                /\ tpc'[k] # tpc[k]
                /\ \A j \in Cand \ {k} : files'[j] = files[j]
          /\ files'[k].processed # files[k].processed =>
                tpc[k] = "defer" /\ files'[k].processed]_vars

\* Slot 1 is Done with an outcome written, while goroutine 2 is still
\* running and slot 2 is Pending.
C13_Witness ==
    /\ Len(files) >= 2
    /\ files[1].processed /\ files[1].buflen > 0
    /\ tpc[2] = "run" /\ ~files[2].processed

\* C14: under fair scheduling, with every pdfgrep terminating, the run
\* terminates: every candidate is launched and becomes Done, the collector
\* gets through the list, and the process exits.
C14_Terminates ==
    <>(/\ pc = "exited" /\ Exited
       /\ \A k \in Cand : tpc[k] = "done" /\ files[k].processed)

\* The process has exited after a run with more candidates than N, in which
\* the dispatcher had to wait on the budget.
C14_Witness ==
    /\ Exited /\ pc = "exited"
    /\ Len(files) = MaxLiveFiles /\ ncpu < Len(files)
    /\ \A k \in Cand : tpc[k] = "done" /\ files[k].processed

\* The candidates whose pdfgrep hangs.
HungCand == { k \in Cand : tool[k] = Hung }

\* C15: if the goroutine of candidate h never completes, its slot of the
\* budget is never given back and the collector stalls at h: the outputs of
\* the candidates before h are written by the time the collector is at h, no
\* output of h or of a later candidate is ever written, and the process
\* never exits.
C15_HungTaskStallsCollector ==
    \A h \in HungCand :
        /\ tpc[h] \in {"idle", "run"} /\ ~files[h].processed
        /\ ~Exited /\ pc \notin {"wait", "exit", "exited"}
        /\ pc \in {"copy", "copying", "use"} => i <= h
        /\ \A a \in 1..Len(stdout) : stdout[a] < h
        /\ (pc \in {"copy", "copying"} /\ i = h)
               => \A k \in 1..(h - 1) : Match(k) => Written(k)

\* C16: launching the next goroutine waits on the counter only.  With N >= 2
\* and one pdfgrep that hangs, the dispatcher is not held up once every other
\* goroutine launched has finished: the budget is positive, so the next
\* candidate is launched.
C16_LaunchWaitsOnCounterOnly ==
    (/\ ncpu >= 2 /\ HungCand # {}
     /\ pc = "dispatch" /\ i <= Len(files)
     /\ \A k \in Cand \ HungCand : tpc[k] \in {"idle", "done"})
        => availableThreads > 0

\* C17: a failed os.Lstat on a node aborts the walk of that node's subtree
\* only.  With -r and Lstat failing on one node n, every node of a root
\* directory outside n's subtree is still visited, a regular file among them
\* that is not hidden is classified, and every root argument is walked.
C17_LstatFailureAbortsSubtreeOnly ==
    (Discovered /\ flagRecurse /\ fsys.werr = {})
        => \A n \in fsys.lerr :
              /\ \A r \in Range(filenames) : r \in Range(visited)
              /\ \A r \in Range(filenames) : \A p \in Below(r) :
                    (p # n /\ p \notin Below(n))
                        => /\ p \in Range(visited)
                           /\ (~IsDir(p) /\ ~DotName(p[Len(p)])) => p \in classified

\* C18: when the collector has seen processed = true in its copy of
\* files[i], the retval, buflen and buf it goes on to use are the final ones
\* of that candidate.
C18_ProcessedImpliesFinalOutcome ==
    pc = "use" =>
        /\ files[i].processed
        /\ f.retval = files[i].retval
        /\ f.buflen = files[i].buflen
        /\ f.buf = files[i].buf

\* C19: nothing is written, and the collector loop has not started, before a
\* goroutine has been launched for the last candidate.
C19_NoOutputBeforeLastLaunch ==
    (\E k \in Cand : tpc[k] = "idle")
        => stdout = <<>> /\ pc \in {"dispatch", "dec", "go"}

\* More candidates than N: candidate 1 is Done with its match in buf, and
\* its output is held back while the last candidate waits for the budget
\* that goroutine 1 is about to give back.
C19_Witness ==
    /\ Len(files) > ncpu
    /\ tpc[1] = "inc" /\ files[1].processed /\ files[1].buflen > 0
    /\ tpc[Len(files)] = "idle" /\ pc = "dispatch" /\ availableThreads = 0
    /\ stdout = <<>>

====
